---- MODULE Spec2Model ----
(***************************************************************************)
(* A model of pdfscale.py: main() resolves a format string with            *)
(* get_format() and scale() rewrites the boxes and the content stream of   *)
(* every page of a document.                                               *)
(*                                                                         *)
(* Numbers.  pikepdf hands the coordinates of a box to Python as int or    *)
(* Decimal and every computation of scale() is Decimal arithmetic.  A      *)
(* Decimal is modelled as an exact rational <<numerator, denominator>> in  *)
(* lowest terms with a positive denominator; the rounding of the decimal   *)
(* context (28 significant digits) is not modelled.                        *)
(*                                                                         *)
(* Strings are sequences of one-character strings.  None and an absent     *)
(* dictionary key are the empty sequence.                                  *)
(***************************************************************************)
EXTENDS Integers, Sequences, FiniteSets, TLC

VARIABLES pc, fmt_string, fpath, page_format, tried, opened, orig, pdf, i,
          scaled_count, outcomes, output, saved, exit_code, raised

vars == <<pc, fmt_string, fpath, page_format, tried, opened, orig, pdf, i,
          scaled_count, outcomes, output, saved, exit_code, raised>>

None == <<>>

(***************************************************************************)
(* Decimal arithmetic                                                      *)
(***************************************************************************)
IntAbs(n) == IF n < 0 THEN -n ELSE n

RECURSIVE GCD(_, _)
GCD(a, b) == IF b = 0 THEN a ELSE GCD(b, a % b)

\* The Decimal n/d (d # 0) in lowest terms.
Dec(n, d) ==
    LET g == GCD(IntAbs(n), IntAbs(d))
        s == IF d < 0 THEN -1 ELSE 1
    IN  <<(s * n) \div g, (s * d) \div g>>

DecInt(n) == <<n, 1>>

DecAdd(a, b) ==
    LET l == (a[2] \div GCD(a[2], b[2])) * b[2]
    IN  Dec(a[1] * (l \div a[2]) + b[1] * (l \div b[2]), l)

DecNeg(a) == <<-a[1], a[2]>>

DecSub(a, b) == DecAdd(a, DecNeg(b))

DecMul(a, b) ==
    LET g1 == GCD(IntAbs(a[1]), b[2])
        g2 == GCD(IntAbs(b[1]), a[2])
    IN  Dec((a[1] \div g1) * (b[1] \div g2), (a[2] \div g2) * (b[2] \div g1))

\* a / b; the caller has excluded b = 0 (decimal.DivisionByZero).
DecDiv(a, b) == DecMul(a, Dec(b[2], b[1]))

DecAbs(a) == <<IntAbs(a[1]), a[2]>>

DecLt(a, b) == DecSub(a, b)[1] < 0

DecLe(a, b) == DecSub(a, b)[1] <= 0

DecGt(a, b) == DecLt(b, a)

DecIsZero(a) == a[1] = 0

\* For converting from Inch to mm: Decimal('25.4')
INCH == Dec(254, 10)

\* 1 User Space Unit or PT in mm: Decimal(1)/72 * INCH
PT == DecMul(DecDiv(DecInt(1), DecInt(72)), INCH)

(***************************************************************************)
(* Strings                                                                 *)
(***************************************************************************)
UpperCase == <<"A", "B", "C", "D", "E", "F", "G", "H", "I", "J", "K", "L", "M",
               "N", "O", "P", "Q", "R", "S", "T", "U", "V", "W", "X", "Y", "Z">>

LowerCase == <<"a", "b", "c", "d", "e", "f", "g", "h", "i", "j", "k", "l", "m",
               "n", "o", "p", "q", "r", "s", "t", "u", "v", "w", "x", "y", "z">>

Digits == <<"0", "1", "2", "3", "4", "5", "6", "7", "8", "9">>

Whitespace == {" ", "\t", "\n", "\r"}

IsDigit(c) == \E k \in 1..Len(Digits) : Digits[k] = c

DigitValue(c) == (CHOOSE k \in 1..Len(Digits) : Digits[k] = c) - 1

\* str.lower()
LowerChar(c) ==
    IF \E k \in 1..Len(UpperCase) : UpperCase[k] = c
    THEN LowerCase[CHOOSE k \in 1..Len(UpperCase) : UpperCase[k] = c]
    ELSE c

Lower(s) == [k \in 1..Len(s) |-> LowerChar(s[k])]

\* str.lstrip()
RECURSIVE LStrip(_)
LStrip(s) ==
    IF s # <<>> /\ Head(s) \in Whitespace THEN LStrip(Tail(s)) ELSE s

\* str.rstrip()
RECURSIVE RStrip(_)
RStrip(s) ==
    IF s # <<>> /\ s[Len(s)] \in Whitespace
    THEN RStrip(SubSeq(s, 1, Len(s) - 1))
    ELSE s

\* str.strip()
Strip(s) == RStrip(LStrip(s))

\* c in s, for a one-character c
Contains(s, c) == \E k \in 1..Len(s) : s[k] = c

\* s.startswith(p)
StartsWith(s, p) == Len(p) <= Len(s) /\ SubSeq(s, 1, Len(p)) = p

\* s[n:]
From(s, n) == SubSeq(s, n + 1, Len(s))

\* s.split(c, 1) of a string that contains c: the parts around the first c
SplitFirst(s, c) ==
    LET k == CHOOSE j \in 1..Len(s) :
                 s[j] = c /\ \A h \in 1..(j - 1) : s[h] # c
    IN  <<SubSeq(s, 1, k - 1), SubSeq(s, k + 1, Len(s))>>

\* The longest prefix of s made of digits
RECURSIVE DigitPrefix(_)
DigitPrefix(s) ==
    IF s # <<>> /\ IsDigit(Head(s))
    THEN <<Head(s)>> \o DigitPrefix(Tail(s))
    ELSE <<>>

\* The number a string of digits denotes (0 for the empty string)
RECURSIVE DigitsValue(_)
DigitsValue(s) ==
    IF s = <<>> THEN 0
    ELSE 10 * DigitsValue(SubSeq(s, 1, Len(s) - 1)) + DigitValue(s[Len(s)])

RECURSIVE Pow10(_)
Pow10(n) == IF n = 0 THEN 1 ELSE 10 * Pow10(n - 1)

(***************************************************************************)
(* Decimal(str): surrounding whitespace is dropped, then an optional sign, *)
(* digits, and an optional "." with more digits, at least one digit in     *)
(* all.  The result is [ok |-> FALSE] for decimal.InvalidOperation.  The   *)
(* exponent, infinity and NaN forms of a literal need the letters e, i, n; *)
(* no input string of this model that reaches Decimal() holds one.         *)
(***************************************************************************)
\* DecimalParse that takes a literal without digits for zero
DecimalParseEmptyIsZero(str) ==
    LET s     == Strip(str)
        signed == s # <<>> /\ Head(s) \in {"-", "+"}
        body  == IF signed THEN Tail(s) ELSE s
        int   == DigitPrefix(body)
        rest  == From(body, Len(int))
        frac  == IF rest # <<>> /\ Head(rest) = "." THEN Tail(rest) ELSE <<>>
        wellFormed ==
            /\ rest = <<>> \/ Head(rest) = "."
            /\ \A k \in 1..Len(frac) : IsDigit(frac[k])
        mag   == Dec(DigitsValue(int \o frac), Pow10(Len(frac)))
    IN  IF wellFormed
        THEN [ok |-> TRUE,
              value |-> IF signed /\ Head(s) = "-" THEN DecNeg(mag) ELSE mag]
        ELSE [ok |-> FALSE, value |-> DecInt(0)]

DecimalParse(str) ==
    LET s     == Strip(str)
        signed == s # <<>> /\ Head(s) \in {"-", "+"}
        body  == IF signed THEN Tail(s) ELSE s
        int   == DigitPrefix(body)
        rest  == From(body, Len(int))
        frac  == IF rest # <<>> /\ Head(rest) = "." THEN Tail(rest) ELSE <<>>
        wellFormed ==
            /\ rest = <<>> \/ Head(rest) = "."
            /\ \A k \in 1..Len(frac) : IsDigit(frac[k])
            /\ Len(int) + Len(frac) >= 1
        mag   == Dec(DigitsValue(int \o frac), Pow10(Len(frac)))
    IN  IF wellFormed
        THEN [ok |-> TRUE,
              value |-> IF signed /\ Head(s) = "-" THEN DecNeg(mag) ELSE mag]
        ELSE [ok |-> FALSE, value |-> DecInt(0)]

(***************************************************************************)
(* int(str): surrounding whitespace is dropped, then an optional sign and  *)
(* at least one digit.  [ok |-> FALSE] is ValueError.                      *)
(***************************************************************************)
IntParse(str) ==
    LET s      == Strip(str)
        signed == s # <<>> /\ Head(s) \in {"-", "+"}
        body   == IF signed THEN Tail(s) ELSE s
        wellFormed == body # <<>> /\ \A k \in 1..Len(body) : IsDigit(body[k])
    IN  IF wellFormed
        THEN [ok |-> TRUE,
              value |-> IF signed /\ Head(s) = "-"
                        THEN -DigitsValue(body) ELSE DigitsValue(body)]
        ELSE [ok |-> FALSE, value |-> 0]

(***************************************************************************)
(* iso216_format                                                           *)
(***************************************************************************)
_ISO216_VALUES ==
    [series \in {"a", "b", "c"} |->
        CASE series = "a" -> DecDiv(DecInt(1), DecInt(4))
          [] series = "b" -> DecDiv(DecInt(1), DecInt(2))
          [] series = "c" -> DecDiv(DecInt(3), DecInt(8))]

\* 1000 * 2^(j/8) for j = 0..7, to four significant digits
Pow2Eighths == <<1000, 1091, 1189, 1297, 1414, 1542, 1682, 1834>>

RECURSIVE Pow2(_)
Pow2(n) == IF n = 0 THEN 1 ELSE 2 * Pow2(n - 1)

\* Decimal(2) ** e for an exponent e that is a multiple of 1/8.  Decimal
\* rounds the irrational power to the context precision; here it is taken
\* from Pow2Eighths.
DecPow2(e) ==
    LET k == e[1] * (8 \div e[2])
        q == k \div 8
        j == k % 8
    IN  IF q >= 0
        THEN Dec(Pow2Eighths[j + 1] * Pow2(q), 1000)
        ELSE Dec(Pow2Eighths[j + 1], 1000 * Pow2(-q))

iso216_format(series, size) ==
    LET height == DecMul(DecPow2(DecSub(_ISO216_VALUES[series],
                                        DecDiv(DecInt(size), DecInt(2)))),
                         DecInt(1000))
        width  == DecMul(DecPow2(DecSub(_ISO216_VALUES[series],
                                        DecDiv(DecInt(size + 1), DecInt(2)))),
                         DecInt(1000))
    IN  <<width, height>>

UsLetter == <<"u", "s", " ", "l", "e", "t", "t", "e", "r">>

Letter == <<"l", "e", "t", "t", "e", "r">>

FORMATS ==
    [name \in {UsLetter} |->
        <<DecMul(Dec(85, 10), INCH), DecMul(DecInt(14), INCH)>>]

\* Abbreviations or alternative names for the entries in FORMATS
SYNONYMS == [name \in {Letter} |-> UsLetter]

(***************************************************************************)
(* get_format, stage by stage.  Each stage yields the format it returns,   *)
(* or None when it falls through to the next one.                          *)
(***************************************************************************)
\* fmt_string.lower().strip()
Normalized(s) == Strip(Lower(s))

\* The 'x' in fmt_string stage: try ... except InvalidOperation: pass
ExplicitStage(t) ==
    IF ~Contains(t, "x") THEN None
    ELSE LET parts  == SplitFirst(t, "x")
             width  == DecimalParse(parts[1])
             height == DecimalParse(parts[2])
         IN  IF width.ok /\ height.ok
             THEN <<width.value, height.value>>
             ELSE None

IsoPrefixes ==
    << <<"d", "i", "n", "-">>,
       <<"d", "i", "n">>,
       <<"i", "s", "o", " ", "2", "1", "6">>,
       <<"i", "s", "o", "2", "1", "6">>,
       <<>> >>

\* One pass of the loop body for one prefix: the format returned, or None
\* when the loop goes on to the next prefix.
IsoTry(t, prefix) ==
    IF ~StartsWith(t, prefix) THEN None
    ELSE LET iso_str == LStrip(From(t, Len(prefix)))
         IN  IF iso_str = <<>> THEN None                 \* IndexError
             ELSE LET series == iso_str[1]
                      size   == IntParse(Tail(iso_str))
                  IN  IF ~size.ok THEN None              \* ValueError
                      ELSE IF /\ series \in {"a", "b", "c"}
                              /\ 0 <= size.value
                              /\ size.value <= 10
                           THEN iso216_format(series, size.value)
                           ELSE None

RECURSIVE IsoFrom(_, _)
IsoFrom(t, n) ==
    IF n > Len(IsoPrefixes) THEN None
    ELSE IF IsoTry(t, IsoPrefixes[n]) # None THEN IsoTry(t, IsoPrefixes[n])
    ELSE IsoFrom(t, n + 1)

\* for prefix in ("din-", "din", "iso 216", "iso216", ""): ...
IsoStage(t) == IsoFrom(t, 1)

\* if fmt_string in FORMATS: return FORMATS[fmt_string]
NamedStage(t) == IF t \in DOMAIN FORMATS THEN FORMATS[t] ELSE None

\* if fmt_string in SYNONYMS: return FORMATS[SYNONYMS[fmt_string]]
SynonymStage(t) == IF t \in DOMAIN SYNONYMS THEN FORMATS[SYNONYMS[t]] ELSE None

(***************************************************************************)
(* Pages.  A page is a record: mediabox is <<x0, y0, x1, y1>>, boxes maps  *)
(* each auxiliary box name to its rectangle or to None when the page does  *)
(* not declare it, UserUnit is the declared unit or None, Contents is the  *)
(* instruction sequence parse_content_stream yields, each instruction      *)
(* [operands, operator].                                                   *)
(***************************************************************************)
BoxNames == {"/CropBox", "/BleedBox", "/TrimBox", "/ArtBox"}

\* user_unit = Decimal(p.get("/UserUnit", 1))
UserUnitOf(p) == IF p.UserUnit = None THEN DecInt(1) ELSE p.UserUnit

\* fmt = tuple(Decimal(e)/(PT*user_unit) for e in fmt_mm)
FmtOf(fmt_mm, user_unit) ==
    <<DecDiv(fmt_mm[1], DecMul(PT, user_unit)),
      DecDiv(fmt_mm[2], DecMul(PT, user_unit))>>

\* width = old_mediabox[2] - old_mediabox[0]
WidthOf(box) == DecSub(box[3], box[1])

\* height = old_mediabox[3] - old_mediabox[1]
HeightOf(box) == DecSub(box[4], box[2])

threshold == DecInt(1)

\* NoChange with <= for <
NoChangeInclusive(x_diff, y_diff) ==
    /\ DecLe(DecAbs(x_diff), threshold)
    /\ DecLe(DecAbs(y_diff), threshold)

\* if (abs(x_diff) < threshold and abs(y_diff) < threshold): continue
NoChange(x_diff, y_diff) ==
    /\ DecLt(DecAbs(x_diff), threshold)
    /\ DecLt(DecAbs(y_diff), threshold)

\* NewMediabox with the differences added
NewMediaboxGrown(old_mediabox, x_diff, y_diff) ==
    <<old_mediabox[1],
      old_mediabox[2],
      DecAdd(old_mediabox[3], x_diff),
      DecAdd(old_mediabox[4], y_diff)>>

\* page.mediabox = [old[0], old[1], old[2] - x_diff, old[3] - y_diff]
NewMediabox(old_mediabox, x_diff, y_diff) ==
    <<old_mediabox[1],
      old_mediabox[2],
      DecSub(old_mediabox[3], x_diff),
      DecSub(old_mediabox[4], y_diff)>>

\* AdjustedBoxes that leaves the boxes alone
AdjustedBoxesKept(boxes, mediabox) == boxes

\* for box in (...): if p.get(box): p[box] = page.mediabox
AdjustedBoxes(boxes, mediabox) ==
    [box \in BoxNames |-> IF boxes[box] # None THEN mediabox ELSE None]

\* WidthBinding with >= for >
WidthBindingOnTie(x_diff, y_diff) == DecLe(y_diff, x_diff)

\* if (x_diff > y_diff): match the new width, else: match the new height
WidthBinding(x_diff, y_diff) == DecGt(x_diff, y_diff)

\* translation, of either branch: wanted position - current position
TranslationOf(width_binding, old_mediabox, mediabox, fmt, scale) ==
    LET half(d) == DecDiv(d, DecInt(2))
    IN  IF width_binding
        THEN <<DecSub(mediabox[1], DecMul(old_mediabox[1], scale)),
               DecSub(DecAdd(mediabox[2],
                             half(DecSub(fmt[2],
                                         DecMul(HeightOf(old_mediabox),
                                                scale)))),
                      DecMul(old_mediabox[2], scale))>>
        ELSE <<DecSub(DecAdd(mediabox[1],
                             half(DecSub(fmt[1],
                                         DecMul(WidthOf(old_mediabox),
                                                scale)))),
                      DecMul(old_mediabox[1], scale)),
               DecSub(mediabox[2], DecMul(old_mediabox[2], scale))>>

\* PdfMatrix().scaled(scale, scale).translated(*translation).shorthand
Shorthand(scale, translation) ==
    <<scale, DecInt(0), DecInt(0), scale, translation[1], translation[2]>>

\* content_stream.insert(0, (transform.shorthand, Operator("cm")))
WithTransform(content_stream, shorthand) ==
    <<[operands |-> shorthand, operator |-> "cm"]>> \o content_stream

(***************************************************************************)
(* The body of the loop of scale() for one page p: the outcome ("NoChange" *)
(* at continue, "Raised" when the division by the width or the height      *)
(* raises, "Changed" at the end of the body) and the page it leaves.  When *)
(* the division raises, the boxes are already set and the content is not.  *)
(***************************************************************************)
LoopBody(p, fmt_mm) ==
    LET user_unit    == UserUnitOf(p)
        fmt          == FmtOf(fmt_mm, user_unit)
        old_mediabox == p.mediabox
        width        == WidthOf(old_mediabox)
        height       == HeightOf(old_mediabox)
        x_diff       == DecSub(width, fmt[1])
        y_diff       == DecSub(height, fmt[2])
        mediabox     == NewMediabox(old_mediabox, x_diff, y_diff)
        boxes        == AdjustedBoxes(p.boxes, mediabox)
        width_binding == WidthBinding(x_diff, y_diff)
        divisor      == IF width_binding THEN width ELSE height
        scale        == IF width_binding
                        THEN DecDiv(fmt[1], width)
                        ELSE DecDiv(fmt[2], height)
        translation  == TranslationOf(width_binding, old_mediabox, mediabox,
                                      fmt, scale)
    IN  IF NoChange(x_diff, y_diff)
        THEN [outcome |-> "NoChange", page |-> p]
        ELSE IF DecIsZero(divisor)
        THEN [outcome |-> "Raised",
              page |-> [p EXCEPT !.mediabox = mediabox, !.boxes = boxes]]
        ELSE [outcome |-> "Changed",
              page |-> [mediabox |-> mediabox,
                        boxes    |-> boxes,
                        UserUnit |-> p.UserUnit,
                        Contents |-> WithTransform(p.Contents,
                                         Shorthand(scale, translation))]]

\* Falsy without the test
FalsyNever(v) == FALSE

\* if not page_format:
Falsy(v) == v = None

\* Truthy without the test
TruthyAlways(n) == TRUE

\* if scaled_count:
Truthy(n) == n # 0

\* fpath[:-4] + "-scaled.pdf"
OutputPath(path) ==
    SubSeq(path, 1, Len(path) - 4)
        \o <<"-", "s", "c", "a", "l", "e", "d", ".", "p", "d", "f">>

(***************************************************************************)
(* Inputs: the command line (arguments.format, arguments.file) and the     *)
(* document Pdf.open reads.                                                *)
(***************************************************************************)
MaxLen == 3

MaxPages == 2

Alphabet == {"0", "1", "x", "a", "-"}

FixedStrings ==
    { <<"A", "4">>,
      <<" ", "A", "4", " ">>,
      <<"d", "i", "n", " ", "a", "4">>,
      <<"i", "s", "o", "2", "1", "6", " ", "a", "4">>,
      <<"D", "I", "N", "-", "c", "3">>,
      UsLetter,
      Letter,
      <<"z", "z", "9", "9">>,
      <<"a", "9", "9">>,
      <<"-", "1", "x", "1">>,
      <<"1", "X", "1", "0">>,
      <<"1", " ", "x", "\t", "1">>,
      <<"2", ".", "5", "x", "1", "1">> }

FormatStrings ==
    FixedStrings \cup UNION {[1..n -> Alphabet] : n \in 0..MaxLen}

FilePaths == { <<"i", "n", ".", "p", "d", "f">> }

Box(x0, y0, x1, y1) == <<DecInt(x0), DecInt(y0), DecInt(x1), DecInt(y1)>>

NoBoxes == [box \in BoxNames |-> None]

Instr(op) == [operands |-> <<>>, operator |-> op]

PageChoices ==
    { \* a small square page whose CropBox is not its MediaBox
      [mediabox |-> Box(0, 0, 3, 3),
       boxes    |-> [NoBoxes EXCEPT !["/CropBox"] = Box(1, 1, 2, 2)],
       UserUnit |-> None,
       Contents |-> <<Instr("q")>>],
      \* a narrow, tall page
      [mediabox |-> Box(0, 0, 4, 30),
       boxes    |-> NoBoxes,
       UserUnit |-> None,
       Contents |-> <<Instr("re"), Instr("f")>>],
      \* an A4 page in points that does not start at the origin
      [mediabox |-> Box(10, 20, 605, 862),
       boxes    |-> [NoBoxes EXCEPT !["/CropBox"] = Box(10, 20, 605, 862),
                                    !["/TrimBox"] = Box(20, 30, 595, 852)],
       UserUnit |-> None,
       Contents |-> <<[operands |-> Shorthand(DecInt(2), <<DecInt(0), DecInt(0)>>),
                       operator |-> "cm"],
                      Instr("re"), Instr("f")>>],
      \* one point wider and one point higher than 8.5 in x 14 in
      [mediabox |-> Box(0, 0, 613, 1009),
       boxes    |-> [NoBoxes EXCEPT !["/ArtBox"] = Box(0, 0, 613, 1009)],
       UserUnit |-> None,
       Contents |-> <<>>],
      \* a page of no width
      [mediabox |-> Box(5, 5, 5, 9),
       boxes    |-> [NoBoxes EXCEPT !["/BleedBox"] = Box(5, 5, 5, 9)],
       UserUnit |-> None,
       Contents |-> <<Instr("q")>>],
      \* a page in units of 2 points, with coordinates that are not integers
      [mediabox |-> <<Dec(1, 2), Dec(1, 2), Dec(613, 2), Dec(1009, 2)>>,
       boxes    |-> NoBoxes,
       UserUnit |-> DecInt(2),
       Contents |-> <<Instr("BT"), Instr("ET")>>] }

Documents == UNION {[1..n -> PageChoices] : n \in 0..MaxPages}

(***************************************************************************)
(* The program                                                             *)
(***************************************************************************)
Message(text, arg, changed, total) ==
    [text |-> text, arg |-> arg, changed |-> changed, total |-> total]

\* The state when main() has parsed its arguments and calls get_format.
Init ==
    /\ pc = "explicit"
    /\ fmt_string \in FormatStrings
    /\ fpath \in FilePaths
    /\ page_format = None
    /\ tried = <<>>
    /\ opened = FALSE
    /\ orig = <<>>
    /\ pdf = <<>>
    /\ i = 0
    /\ scaled_count = 0
    /\ outcomes = <<>>
    /\ output = <<>>
    /\ saved = <<>>
    /\ exit_code = -1
    /\ raised = ""

\* A stage of get_format: it returns its format to main, or falls through.
Stage(name, result, next) ==
    /\ pc = name
    /\ tried' = Append(tried, name)
    /\ IF result # None \/ next = "main"
       THEN page_format' = result /\ pc' = "main"
       ELSE page_format' = page_format /\ pc' = next
    /\ UNCHANGED <<fmt_string, fpath, opened, orig, pdf, i, scaled_count,
                   outcomes, output, saved, exit_code, raised>>

GetFormatExplicit ==
    Stage("explicit", ExplicitStage(Normalized(fmt_string)), "iso")

GetFormatIso ==
    Stage("iso", IsoStage(Normalized(fmt_string)), "named")

GetFormatNamed ==
    Stage("named", NamedStage(Normalized(fmt_string)), "synonym")

\* The last stage; without a match the function ends and returns None.
GetFormatSynonym ==
    Stage("synonym", SynonymStage(Normalized(fmt_string)), "main")

\* main: print(f"Unrecognized format {arguments.format}"); exit(1)
MainUnrecognized ==
    /\ pc = "main"
    /\ Falsy(page_format)
    /\ output' = Append(output, Message("Unrecognized format", fmt_string, 0, 0))
    /\ exit_code' = 1
    /\ pc' = "exit"
    /\ UNCHANGED <<fmt_string, fpath, page_format, tried, opened, orig, pdf,
                   i, scaled_count, outcomes, saved, raised>>

\* main: scale(arguments.file, page_format), up to the head of the loop
ScaleOpen ==
    /\ pc = "main"
    /\ ~Falsy(page_format)
    /\ \E document \in Documents :
          /\ orig' = document
          /\ pdf' = document
    /\ opened' = TRUE
    /\ scaled_count' = 0
    /\ i' = 1
    /\ pc' = "loop"
    /\ UNCHANGED <<fmt_string, fpath, page_format, tried, outcomes, output,
                   saved, exit_code, raised>>

\* One pass of the loop that ends at continue.
ScalePageSkip ==
    /\ pc = "loop"
    /\ i <= Len(pdf)
    /\ LoopBody(pdf[i], page_format).outcome = "NoChange"
    /\ outcomes' = Append(outcomes, [page |-> i, outcome |-> "NoChange"])
    /\ i' = i + 1
    /\ UNCHANGED <<pc, fmt_string, fpath, page_format, tried, opened, orig,
                   pdf, scaled_count, output, saved, exit_code, raised>>

\* One pass of the loop that runs to the end of its body.
ScalePageChange ==
    /\ pc = "loop"
    /\ i <= Len(pdf)
    /\ LoopBody(pdf[i], page_format).outcome = "Changed"
    /\ pdf' = [pdf EXCEPT ![i] = LoopBody(pdf[i], page_format).page]
    /\ scaled_count' = scaled_count + 1
    /\ outcomes' = Append(outcomes, [page |-> i, outcome |-> "Changed"])
    /\ i' = i + 1
    /\ UNCHANGED <<pc, fmt_string, fpath, page_format, tried, opened, orig,
                   output, saved, exit_code, raised>>

\* One pass of the loop in which the division raises: the exception leaves
\* scale() and main(), and the interpreter exits with code 1.
ScalePageRaise ==
    /\ pc = "loop"
    /\ i <= Len(pdf)
    /\ LoopBody(pdf[i], page_format).outcome = "Raised"
    /\ pdf' = [pdf EXCEPT ![i] = LoopBody(pdf[i], page_format).page]
    /\ raised' = "DivisionByZero"
    /\ exit_code' = 1
    /\ pc' = "raised"
    /\ UNCHANGED <<fmt_string, fpath, page_format, tried, opened, orig, i,
                   scaled_count, outcomes, output, saved>>

\* After the loop: report, and save when a page was scaled.
ScaleFinish ==
    /\ pc = "loop"
    /\ i > Len(pdf)
    /\ IF Truthy(scaled_count)
       THEN /\ output' = Append(output,
                                Message("Scaled (changed/total) pages", <<>>,
                                        scaled_count, Len(pdf)))
            /\ saved' = Append(saved, [path |-> OutputPath(fpath),
                                       pages |-> pdf])
       ELSE /\ output' = Append(output,
                                Message("File already respects wanted format, nothing to do",
                                        <<>>, 0, 0))
            /\ saved' = saved
    /\ exit_code' = 0
    /\ pc' = "done"
    /\ UNCHANGED <<fmt_string, fpath, page_format, tried, opened, orig, pdf,
                   i, scaled_count, outcomes, raised>>

Next ==
    \/ GetFormatExplicit
    \/ GetFormatIso
    \/ GetFormatNamed
    \/ GetFormatSynonym
    \/ MainUnrecognized
    \/ ScaleOpen
    \/ ScalePageSkip
    \/ ScalePageChange
    \/ ScalePageRaise
    \/ ScaleFinish

Spec == Init /\ [][Next]_vars

(***************************************************************************)
(* Properties                                                              *)
(***************************************************************************)
GetFormatStages == {"explicit", "iso", "named", "synonym"}

\* The pages whose pass of the loop has ended, at continue or at the end.
ProcessedPages == {k \in 1..Len(pdf) : k < i}

ChangedPages == {k \in ProcessedPages : outcomes[k].outcome = "Changed"}

SkippedPages == {k \in ProcessedPages : outcomes[k].outcome = "NoChange"}

\* The target format in the units of page k.
TargetOf(k) == FmtOf(page_format, UserUnitOf(orig[k]))

\* The matrix the first instruction of page k concatenates
MatrixOf(k) == pdf[k].Contents[1].operands

\* The image of the point (x, y) under the matrix <<a, b, c, d, e, f>>
ImageX(m, x, y) == DecAdd(DecAdd(DecMul(m[1], x), DecMul(m[3], y)), m[5])

ImageY(m, x, y) == DecAdd(DecAdd(DecMul(m[2], x), DecMul(m[4], y)), m[6])

IsPositive(d) == d[1] > 0

\* C1: on every changed page with a positive target format and a box with
\* x1 > x0 and y1 > y0, the image of the original MediaBox under the
\* prepended transform lies inside the new MediaBox on both axes.
NothingCropped ==
    \A k \in ChangedPages :
        LET old == orig[k].mediabox
            new == pdf[k].mediabox
            m   == MatrixOf(k)
        IN  (/\ IsPositive(page_format[1])
             /\ IsPositive(page_format[2])
             /\ DecLt(old[1], old[3])
             /\ DecLt(old[2], old[4]))
            => /\ DecLe(new[1], ImageX(m, old[1], old[2]))
               /\ DecLe(ImageX(m, old[3], old[4]), new[3])
               /\ DecLe(new[2], ImageY(m, old[1], old[2]))
               /\ DecLe(ImageY(m, old[3], old[4]), new[4])

\* C2: the width is binding exactly when x_diff > y_diff.  Then the scale
\* is fmt.width / width, the image of the old left edge is the new x0, the
\* image of the old box is exactly fmt.width wide, and the gap below the
\* image equals the gap above it.  Otherwise (also on a tie) the same holds
\* with the axes exchanged.
BindingAndCentering ==
    \A k \in ChangedPages :
        LET old == orig[k].mediabox
            new == pdf[k].mediabox
            fmt == TargetOf(k)
            m   == MatrixOf(k)
            x_diff == DecSub(DecSub(old[3], old[1]), fmt[1])
            y_diff == DecSub(DecSub(old[4], old[2]), fmt[2])
            left   == ImageX(m, old[1], old[2])
            right  == ImageX(m, old[3], old[4])
            bottom == ImageY(m, old[1], old[2])
            top    == ImageY(m, old[3], old[4])
        IN  /\ m[1] = m[4] /\ DecIsZero(m[2]) /\ DecIsZero(m[3])
            /\ IF DecLt(y_diff, x_diff)
               THEN /\ DecMul(m[1], DecSub(old[3], old[1])) = fmt[1]
                    /\ left = new[1]
                    /\ DecSub(right, left) = fmt[1]
                    /\ DecSub(bottom, new[2]) = DecSub(new[4], top)
               ELSE /\ DecMul(m[1], DecSub(old[4], old[2])) = fmt[2]
                    /\ bottom = new[2]
                    /\ DecSub(top, bottom) = fmt[2]
                    /\ DecSub(left, new[1]) = DecSub(new[3], right)

\* A state in which one changed page was bound by its width, and another
\* was changed on a tie x_diff = y_diff that the two scales tell apart.
BindingWitness ==
    \E j, k \in ChangedPages :
        LET oldj == orig[j].mediabox
            oldk == orig[k].mediabox
            fj   == TargetOf(j)
            fk   == TargetOf(k)
        IN  /\ DecLt(DecSub(DecSub(oldj[4], oldj[2]), fj[2]),
                     DecSub(DecSub(oldj[3], oldj[1]), fj[1]))
            /\ DecSub(DecSub(oldk[4], oldk[2]), fk[2])
                   = DecSub(DecSub(oldk[3], oldk[1]), fk[1])
            /\ DecMul(fk[1], DecSub(oldk[4], oldk[2]))
                   # DecMul(fk[2], DecSub(oldk[3], oldk[1]))

\* C3: a second pass of the loop body over a page the loop has processed,
\* with the same format, ends at continue and leaves the page as it is.
SecondRunNoChange ==
    \A k \in ProcessedPages :
        /\ LoopBody(pdf[k], page_format).outcome = "NoChange"
        /\ LoopBody(pdf[k], page_format).page = pdf[k]

\* A page that the first pass changed.
SecondRunWitness == ChangedPages # {}

\* C4 as claimed: once a page is processed, every auxiliary box it declares
\* equals its MediaBox, and the boxes it does not declare stay absent.
AuxBoxesEqualMediaBoxAfterProcessing ==
    \A k \in ProcessedPages : \A box \in BoxNames :
        IF orig[k].boxes[box] # None
        THEN pdf[k].boxes[box] = pdf[k].mediabox
        ELSE pdf[k].boxes[box] = None

\* C4 as amended: on every page the loop changed, every auxiliary box the
\* page declares equals the new MediaBox and the boxes it does not declare
\* stay absent; a skipped page keeps its auxiliary boxes as they were.
AuxBoxesEqualMediaBoxWhenChanged ==
    /\ \A k \in ChangedPages : \A box \in BoxNames :
          IF orig[k].boxes[box] # None
          THEN pdf[k].boxes[box] = pdf[k].mediabox
          ELSE pdf[k].boxes[box] = None
    /\ \A k \in SkippedPages : pdf[k].boxes = orig[k].boxes

\* A changed page that declared an auxiliary box different from its
\* MediaBox and one it did not declare.
AuxBoxesWitness ==
    \E k \in ChangedPages : \E box, other \in BoxNames :
        /\ orig[k].boxes[box] # None
        /\ orig[k].boxes[box] # orig[k].mediabox
        /\ orig[k].boxes[other] = None

\* C5: every format get_format returns has a positive width and height.
ResolvedFormatIsPositive ==
    (pc \notin GetFormatStages /\ page_format # None)
        => IsPositive(page_format[1]) /\ IsPositive(page_format[2])

\* C6: resizing keeps x0 and y0, leaves x1 >= x0 and y1 >= y0, and makes
\* the box exactly fmt.width wide and fmt.height high.
ResizeKeepsCornerAndFitsFormat ==
    \A k \in ChangedPages :
        LET old == orig[k].mediabox
            new == pdf[k].mediabox
            fmt == TargetOf(k)
        IN  /\ new[1] = old[1]
            /\ new[2] = old[2]
            /\ DecLe(new[1], new[3])
            /\ DecLe(new[2], new[4])
            /\ DecSub(new[3], new[1]) = fmt[1]
            /\ DecSub(new[4], new[2]) = fmt[2]

\* A decimal literal, as a grammar: optional sign, digits, optional "." and
\* digits, with at least one digit, between optional whitespace.
IsDecimalLiteral(str) ==
    LET s == Strip(str)
    IN  \E sign \in 0..1, int \in 0..Len(s), dot \in 0..1, frac \in 0..Len(s) :
            /\ sign + int + dot + frac = Len(s)
            /\ sign = 1 => s[1] \in {"+", "-"}
            /\ \A k \in (sign + 1)..(sign + int) : IsDigit(s[k])
            /\ dot = 1 => s[sign + int + 1] = "."
            /\ dot = 0 => frac = 0
            /\ \A k \in (sign + int + dot + 1)..Len(s) : IsDigit(s[k])
            /\ int + frac >= 1

StageOrder == <<"explicit", "iso", "named", "synonym">>

\* C7: for a string with an 'x', when both parts around the first 'x' are
\* decimal literals the explicit pair is returned and no other stage runs;
\* otherwise nothing is raised, the ISO 216 stage, the named table and the
\* synonym table are tried in that order up to the first that matches, and
\* the result is that match, or None when none matches.
MalformedExplicitFallsThrough ==
    LET t     == Normalized(fmt_string)
        first == CHOOSE k \in 1..Len(t) :
                     t[k] = "x" /\ \A h \in 1..(k - 1) : t[h] # "x"
        before == SubSeq(t, 1, first - 1)
        after  == SubSeq(t, first + 1, Len(t))
        iso    == IsoStage(t)
        named  == NamedStage(t)
        syn    == SynonymStage(t)
    IN  /\ pc \in GetFormatStages =>
              \E n \in 1..Len(StageOrder) :
                  StageOrder[n] = pc /\ tried = SubSeq(StageOrder, 1, n - 1)
        /\ (pc \notin GetFormatStages /\ Contains(t, "x")) =>
              IF IsDecimalLiteral(before) /\ IsDecimalLiteral(after)
              THEN /\ tried = <<"explicit">>
                   /\ page_format = <<DecimalParse(before).value,
                                      DecimalParse(after).value>>
              ELSE /\ raised # "InvalidOperation"
                   /\ tried = IF iso # None THEN SubSeq(StageOrder, 1, 2)
                              ELSE IF named # None THEN SubSeq(StageOrder, 1, 3)
                              ELSE StageOrder
                   /\ page_format = IF iso # None THEN iso
                                    ELSE IF named # None THEN named
                                    ELSE syn

\* get_format has returned for a string with an 'x' and a malformed part.
FallThroughWitness ==
    /\ pc \notin GetFormatStages
    /\ Contains(Normalized(fmt_string), "x")
    /\ Len(tried) = 4
    /\ page_format = None

\* C8: when get_format returned None the run has ended with exit code 1
\* and the diagnostic, the document was never opened, no page was touched
\* and nothing was saved.
UnrecognizedFormatTouchesNothing ==
    (pc \notin (GetFormatStages \cup {"main"}) /\ page_format = None)
        => /\ pc = "exit"
           /\ exit_code = 1
           /\ output = <<Message("Unrecognized format", fmt_string, 0, 0)>>
           /\ ~opened
           /\ orig = <<>>
           /\ pdf = <<>>
           /\ outcomes = <<>>
           /\ saved = <<>>

UnrecognizedWitness == pc = "exit" /\ page_format = None /\ exit_code = 1

ScaledPath == <<"i", "n", "-", "s", "c", "a", "l", "e", "d", ".", "p", "d", "f">>

\* C9: the pages are visited in document order; the count is the number of
\* pages visited whose outcome was not NoChange; nothing is saved before
\* the last page was visited; at the end the document is saved once, under
\* the derived path, exactly when the count is not zero, and the message
\* fits.
OrderCountAndSave ==
    /\ \A n \in 1..Len(outcomes) : outcomes[n].page = n
    /\ pc \in {"loop", "done", "raised"} => Len(outcomes) = i - 1
    /\ scaled_count = Cardinality({k \in ProcessedPages : pdf[k] # orig[k]})
    /\ scaled_count
          = Cardinality({n \in 1..Len(outcomes) :
                            outcomes[n].outcome # "NoChange"})
    /\ pc # "done" => saved = <<>>
    /\ pc = "done" =>
          /\ Len(outcomes) = Len(pdf)
          /\ exit_code = 0
          /\ IF scaled_count # 0
             THEN /\ saved = <<[path |-> ScaledPath, pages |-> pdf]>>
                  /\ output = <<Message("Scaled (changed/total) pages", <<>>,
                                        scaled_count, Len(pdf))>>
             ELSE /\ saved = <<>>
                  /\ output = <<Message("File already respects wanted format, nothing to do",
                                        <<>>, 0, 0)>>

\* A finished run that changed some pages and skipped others.
CountAndSaveWitness ==
    /\ pc = "done"
    /\ ChangedPages # {}
    /\ SkippedPages # {}
    /\ Len(saved) = 1

====
